---- MODULE Spec2Model ----
(***************************************************************************)
(* Model of the codex-14499 auxiliary scripts.                             *)
(*                                                                         *)
(*   scripts/validate_codex.py : type_matches, validate_schema,            *)
(*                               validate_node, run_validation, main       *)
(*   color_utils.py            : clamp, ycocg_to_rgb, ycocg_to_hsl         *)
(*   scripts/dedup.py          : dedup_file                                *)
(*                                                                         *)
(* JSON values are tagged records [t |-> <Python type name>, v |-> data],  *)
(* the shape json.load gives them:                                         *)
(*   NoneType v = 0          bool  v = 0 or 1        int   v = the integer *)
(*   float    v = twice the number (so halves are representable)           *)
(*   str      v = the text   list  v = sequence of values                  *)
(*   dict     v = sequence of [k |-> key, v |-> value], insertion order    *)
(* A raised exception is the result [raised |-> TRUE, exc |-> its class].  *)
(***************************************************************************)
EXTENDS Integers, Sequences, FiniteSets, TLC

VARIABLES
    fn,         \* pure-function harness: the function under call
    arg_value,  \* its value / node argument
    arg_schema, \* its schema / expected argument
    arg_index,  \* validate_node's index argument
    result,     \* what the call returned (or "pending")
    pc,         \* main program: position in main / run_validation
    argc,       \* number of positional arguments given to main
    data_exists,    \* data_path.exists()
    schema_exists,  \* schema_path.exists()
    payload,    \* load_json(data_path)
    schema,     \* load_json(schema_path)
    index,      \* loop position in nodes (0-based, next element to process)
    issues,     \* run_validation's accumulated issues
    calls,      \* indices validate_node was called with, in order
    out,        \* lines printed, in order
    events,     \* file-system operations performed, in order
    rc,         \* statuses main returned: <<>> until it returns, then <<code>>
    exc,        \* uncaught exception class ("" when none)
    color_fn,   \* colour harness: the function under call
    arg_y,      \* its y argument
    arg_co,     \* its co argument
    arg_cg,     \* its cg argument
    color_result,   \* what the call returned (or "pending")
    file,       \* dedup harness: the characters of the file at path
    original,   \* the file as it was before the first call
    history     \* the calls of dedup_file so far: [fix, before, ret, wrote]

fnvars == <<fn, arg_value, arg_schema, arg_index, result>>
mainvars == <<pc, argc, data_exists, schema_exists, payload, schema, index,
              issues, calls, out, events, rc, exc>>
colorvars == <<color_fn, arg_y, arg_co, arg_cg, color_result>>
dedupvars == <<file, original, history>>
auxvars == <<colorvars, dedupvars>>
vars == <<fn, arg_value, arg_schema, arg_index, result, pc, argc, data_exists,
          schema_exists, payload, schema, index, issues, calls, out, events,
          rc, exc, color_fn, arg_y, arg_co, arg_cg, color_result, file,
          original, history>>

----------------------------------------------------------------------------
(* Bounds of the model. *)

MaxKinds == 2
MaxIndex == 2
MaxNodes == 2
MaxArgs == 3

(* The ND-safe floor of validate_node. *)
MinSweepFloor == 14

----------------------------------------------------------------------------
(* JSON values as json.load builds them. *)

JNull == [t |-> "NoneType", v |-> 0]
JBool(b) == [t |-> "bool", v |-> IF b THEN 1 ELSE 0]
JInt(n) == [t |-> "int", v |-> n]
JHalves(h) == [t |-> "float", v |-> h]
JStr(s) == [t |-> "str", v |-> s]
JList(items) == [t |-> "list", v |-> items]
JDict(pairs) == [t |-> "dict", v |-> pairs]
KV(key, val) == [k |-> key, v |-> val]

(* isinstance(value, (int, float)) and not isinstance(value, bool) *)
IsNumber(value) == value.t \in {"int", "float"}

(* Values Python orders and compares numerically: bool is a subclass of int. *)
IsNumeric(value) == value.t \in {"bool", "int", "float"}

(* Numeric value of a bool/int/float, in halves. *)
Halves(value) == IF value.t = "float" THEN value.v ELSE 2 * value.v

(* Python truthiness, as `if type_decl:` and `if safety.get(...)` use it. *)
Truthy(value) ==
    CASE value.t = "NoneType" -> FALSE
      [] value.t \in {"bool", "int", "float"} -> value.v # 0
      [] value.t = "str" -> value.v # ""
      [] value.t \in {"list", "dict"} -> Len(value.v) > 0

(* key in d *)
HasKey(d, key) == \E i \in 1..Len(d.v) : d.v[i].k = key

(* d[key] *)
Item(d, key) == d.v[CHOOSE i \in 1..Len(d.v) : d.v[i].k = key].v

(* d.get(key, default); d.get(key) is DictGet(d, key, JNull) *)
DictGet(d, key, default) == IF HasKey(d, key) THEN Item(d, key) ELSE default

(* Python ==, which `in` applies to the members of a list. *)
RECURSIVE PyEq(_, _)
PyEq(a, b) ==
    CASE IsNumeric(a) /\ IsNumeric(b) -> Halves(a) = Halves(b)
      [] a.t = "list" /\ b.t = "list" ->
            /\ Len(a.v) = Len(b.v)
            /\ \A i \in 1..Len(a.v) : PyEq(a.v[i], b.v[i])
      [] a.t = "dict" /\ b.t = "dict" ->
            /\ Len(a.v) = Len(b.v)
            /\ \A i \in 1..Len(a.v) :
                  /\ HasKey(b, a.v[i].k)
                  /\ PyEq(a.v[i].v, Item(b, a.v[i].k))
      [] a.t = "str" /\ b.t = "str" -> a.v = b.v
      [] a.t = "NoneType" /\ b.t = "NoneType" -> TRUE
      [] OTHER -> FALSE

(* value in members, for a list *)
PyIn(value, members) == \E i \in 1..Len(members) : PyEq(members[i], value)

----------------------------------------------------------------------------
(* Results: a normal return of a list of issues, or a raised exception. *)

Issue(path, message) == [path |-> path, message |-> message]
Returned(found) == [raised |-> FALSE, exc |-> "", issues |-> found]
Raised(class) == [raised |-> TRUE, exc |-> class, issues |-> <<>>]
NoIssues == Returned(<<>>)

(* Statement sequencing: b runs after a unless a raised; issues append. *)
Then(a, b) ==
    IF a.raised THEN a
    ELSE IF b.raised THEN b
    ELSE Returned(a.issues \o b.issues)

----------------------------------------------------------------------------
(* type_matches: one pass over the expected kinds, first match returns.    *)

(* Variant: isinstance(value, int) without the bool exclusion. *)
KindMatches_BoolIsInt(value, kind) ==
    \/ PyEq(kind, JStr("object")) /\ value.t = "dict"
    \/ PyEq(kind, JStr("array")) /\ value.t = "list"
    \/ PyEq(kind, JStr("string")) /\ value.t = "str"
    \/ PyEq(kind, JStr("integer")) /\ value.t \in {"int", "bool"}
    \/ PyEq(kind, JStr("number")) /\ value.t \in {"int", "float", "bool"}
    \/ PyEq(kind, JStr("boolean")) /\ value.t = "bool"
    \/ PyEq(kind, JStr("null")) /\ value.t = "NoneType"

KindMatches(value, kind) ==
    \/ PyEq(kind, JStr("object")) /\ value.t = "dict"
    \/ PyEq(kind, JStr("array")) /\ value.t = "list"
    \/ PyEq(kind, JStr("string")) /\ value.t = "str"
    \/ PyEq(kind, JStr("integer")) /\ value.t = "int"
    \/ PyEq(kind, JStr("number")) /\ value.t \in {"int", "float"}
    \/ PyEq(kind, JStr("boolean")) /\ value.t = "bool"
    \/ PyEq(kind, JStr("null")) /\ value.t = "NoneType"

type_matches(value, expected) ==
    \E i \in 1..Len(expected) : KindMatches(value, expected[i])

----------------------------------------------------------------------------
(* re.search(pattern, text) for the patterns the modelled schemas use.     *)

LowerWords == {"a", "ab", "static"}

re_search(pattern, text) ==
    CASE pattern = "^[a-z]+$" -> text \in LowerWords

----------------------------------------------------------------------------
(* validate_schema.  Messages that interpolate a repr keep their fixed     *)
(* leading words only.                                                     *)

(* expected = [type_decl] if isinstance(type_decl, str) else list(type_decl) *)
ExpectedKinds(type_decl) ==
    IF type_decl.t = "str" THEN <<type_decl>> ELSE type_decl.v

(* lines 63-64 *)
check_enum(value, sch, path) ==
    IF ~HasKey(sch, "enum") THEN NoIssues
    ELSE LET enum == Item(sch, "enum") IN
         CASE enum.t = "list" ->
                IF ~PyIn(value, enum.v)
                THEN Returned(<<Issue(path, "expected one of")>>)
                ELSE NoIssues
           [] enum.t \in {"NoneType", "bool", "int", "float"} ->
                Raised("TypeError")

(* lines 66-68 *)
check_pattern(value, sch, path) ==
    IF HasKey(sch, "pattern") /\ value.t = "str"
       /\ ~re_search(Item(sch, "pattern").v, value.v)
    THEN Returned(<<Issue(path, "does not match pattern")>>)
    ELSE NoIssues

(* lines 70-72 *)
check_minimum(value, sch, path) ==
    IF ~(HasKey(sch, "minimum") /\ IsNumber(value)) THEN NoIssues
    ELSE LET bound == Item(sch, "minimum") IN
         IF ~IsNumeric(bound) THEN Raised("TypeError")
         ELSE IF Halves(value) < Halves(bound)
              THEN Returned(<<Issue(path, "below minimum")>>)
              ELSE NoIssues

(* lines 74-76 *)
check_exclusive_minimum(value, sch, path) ==
    IF ~(HasKey(sch, "exclusiveMinimum") /\ IsNumber(value)) THEN NoIssues
    ELSE LET bound == Item(sch, "exclusiveMinimum") IN
         IF ~IsNumeric(bound) THEN Raised("TypeError")
         ELSE IF Halves(value) <= Halves(bound)
              THEN Returned(<<Issue(path, "must be greater than")>>)
              ELSE NoIssues

(* lines 80-83: for key in required: if key not in value *)
RECURSIVE check_required(_, _, _, _)
check_required(value, required, path, i) ==
    IF i > Len(required) THEN <<>>
    ELSE (IF ~HasKey(value, required[i].v)
          THEN <<Issue(path \o "." \o required[i].v, "missing required property")>>
          ELSE <<>>)
         \o check_required(value, required, path, i + 1)

(* lines 88-92: for key in value.keys(): if key not in allowed *)
RECURSIVE check_additional(_, _, _, _)
check_additional(value, props, path, i) ==
    IF i > Len(value.v) THEN <<>>
    ELSE (IF ~HasKey(props, value.v[i].k)
          THEN <<Issue(path \o "." \o value.v[i].k, "additional properties are not allowed")>>
          ELSE <<>>)
         \o check_additional(value, props, path, i + 1)

(* schema_type == "object" or (not schema_type and isinstance(value, dict)) *)
ObjectBranch(value, type_decl) ==
    \/ PyEq(type_decl, JStr("object"))
    \/ ~Truthy(type_decl) /\ value.t = "dict"

(* schema_type == "array" or (not schema_type and isinstance(value, list)) *)
ArrayBranch(value, type_decl) ==
    \/ PyEq(type_decl, JStr("array"))
    \/ ~Truthy(type_decl) /\ value.t = "list"

(* schema.get("additionalProperties") is False *)
ForbidsAdditional(sch) ==
    LET flag == DictGet(sch, "additionalProperties", JNull)
    IN flag.t = "bool" /\ flag.v = 0

RECURSIVE validate_schema(_, _, _)
RECURSIVE validate_props(_, _, _, _)
RECURSIVE validate_items(_, _, _, _)

(* lines 84-87: for key, subschema in props.items(): if key in value *)
validate_props(value, props, path, i) ==
    IF i > Len(props.v) THEN NoIssues
    ELSE Then(IF HasKey(value, props.v[i].k)
              THEN validate_schema(Item(value, props.v[i].k), props.v[i].v,
                                   path \o "." \o props.v[i].k)
              ELSE NoIssues,
              validate_props(value, props, path, i + 1))

(* lines 100-101: for index, item in enumerate(value) *)
validate_items(value, item_schema, path, i) ==
    IF i > Len(value.v) THEN NoIssues
    ELSE Then(validate_schema(value.v[i], item_schema,
                              path \o "[" \o ToString(i - 1) \o "]"),
              validate_items(value, item_schema, path, i + 1))

(* Variant: the additionalProperties pass runs before the properties pass. *)
check_object_AdditionalFirst(value, sch, path) ==
    LET required == DictGet(sch, "required", JList(<<>>))
        props == DictGet(sch, "properties", JDict(<<>>))
    IN Then(Returned(check_required(value, required.v, path, 1)),
       Then(IF ForbidsAdditional(sch)
            THEN Returned(check_additional(value, props, path, 1))
            ELSE NoIssues,
            validate_props(value, props, path, 1)))

(* lines 79-92 *)
check_object(value, sch, path) ==
    LET required == DictGet(sch, "required", JList(<<>>))
        props == DictGet(sch, "properties", JDict(<<>>))
    IN Then(Returned(check_required(value, required.v, path, 1)),
       Then(validate_props(value, props, path, 1),
            IF ForbidsAdditional(sch)
            THEN Returned(check_additional(value, props, path, 1))
            ELSE NoIssues))

(* lines 94-101 *)
check_array(value, sch, path) ==
    LET min_items == DictGet(sch, "minItems", JNull)
        item_schema == DictGet(sch, "items", JNull)
    IN Then(IF min_items.t # "NoneType" /\ 2 * Len(value.v) < Halves(min_items)
            THEN Returned(<<Issue(path, "expected at least " \o ToString(min_items.v) \o " items")>>)
            ELSE NoIssues,
            IF item_schema.t = "dict"
            THEN validate_items(value, item_schema, path, 1)
            ELSE NoIssues)

validate_schema(value, sch, path) ==
    LET type_decl == DictGet(sch, "type", JNull) IN
    IF Truthy(type_decl) /\ ~type_matches(value, ExpectedKinds(type_decl))
    THEN Returned(<<Issue(path, "expected type")>>)
    ELSE Then(check_enum(value, sch, path),
         Then(check_pattern(value, sch, path),
         Then(check_minimum(value, sch, path),
         Then(check_exclusive_minimum(value, sch, path),
         Then(IF ObjectBranch(value, type_decl)
              THEN check_object(value, sch, path) ELSE NoIssues,
              IF ArrayBranch(value, type_decl)
              THEN check_array(value, sch, path) ELSE NoIssues)))))

----------------------------------------------------------------------------
(* validate_node *)

NodePath(i) == "node[" \o ToString(i) \o "]"

SweepIssue(i) ==
    Issue(NodePath(i) \o ".safety.minSweepSec",
          "must be >= 14 seconds when motionOptIn is true")

(* Variant: sweep <= 14 in place of sweep < 14. *)
check_safety_Inclusive(node, i) ==
    LET safety == DictGet(node, "safety", JDict(<<>>)) IN
    IF safety.t # "dict" THEN Raised("AttributeError")
    ELSE IF ~Truthy(DictGet(safety, "motionOptIn", JNull)) THEN NoIssues
    ELSE LET sweep == DictGet(safety, "minSweepSec", JNull) IN
         IF sweep.t = "NoneType" THEN Returned(<<SweepIssue(i)>>)
         ELSE IF ~IsNumeric(sweep) THEN Raised("TypeError")
         ELSE IF Halves(sweep) <= 2 * MinSweepFloor
              THEN Returned(<<SweepIssue(i)>>)
              ELSE NoIssues

(* lines 107-111, after the generic pass *)
check_safety(node, i) ==
    LET safety == DictGet(node, "safety", JDict(<<>>)) IN
    IF safety.t # "dict" THEN Raised("AttributeError")
    ELSE IF ~Truthy(DictGet(safety, "motionOptIn", JNull)) THEN NoIssues
    ELSE LET sweep == DictGet(safety, "minSweepSec", JNull) IN
         IF sweep.t = "NoneType" THEN Returned(<<SweepIssue(i)>>)
         ELSE IF ~IsNumeric(sweep) THEN Raised("TypeError")
         ELSE IF Halves(sweep) < 2 * MinSweepFloor
              THEN Returned(<<SweepIssue(i)>>)
              ELSE NoIssues

validate_node(node, sch, i) ==
    Then(validate_schema(node, sch, NodePath(i)), check_safety(node, i))

----------------------------------------------------------------------------
(* Inputs of the pure-function specification.                              *)

(* An optional key of a dict: choice is <<>> (absent) or <<value>>. *)
Opt(key, choice) == IF Len(choice) = 0 THEN <<>> ELSE <<KV(key, choice[1])>>

(* Values two and three levels deep. *)
NestedValues ==
    { JDict(<<KV("c", JInt(1)),
              KV("a", JDict(<<KV("y", JInt(1)), KV("q", JInt(0))>>)),
              KV("b", JList(<<JStr("a")>>)),
              KV("d", JNull)>>),
      JDict(<<KV("b", JList(<<JInt(0), JStr("a"), JInt(2)>>)),
              KV("z", JInt(0)),
              KV("a", JDict(<<KV("x", JInt(1)), KV("y", JStr("a"))>>))>>),
      JList(<<JDict(<<KV("y", JInt(1))>>), JInt(5),
              JDict(<<KV("x", JStr("a")), KV("q", JInt(1))>>)>>),
      JList(<<JInt(0), JStr("a"), JInt(0)>>) }

Values ==
    NestedValues \cup
    { JNull, JBool(TRUE), JBool(FALSE), JInt(0), JInt(1), JInt(5),
      JHalves(2), JHalves(1), JStr("a"), JStr("A1"),
      JList(<<>>), JList(<<JInt(1)>>),
      JList(<<JInt(1), JStr("a"), JDict(<<>>)>>),
      JDict(<<>>),
      JDict(<<KV("a", JInt(1))>>),
      JDict(<<KV("a", JStr("a"))>>),
      JDict(<<KV("b", JHalves(1))>>),
      JDict(<<KV("b", JStr("a")), KV("a", JInt(0))>>),
      JDict(<<KV("c", JNull), KV("a", JInt(1)), KV("b", JStr("A1"))>>) }

KindNames ==
    { "object", "array", "string", "integer", "number", "boolean", "null",
      "any" }

(* Every list of at most n type names. *)
RECURSIVE KindLists(_)
KindLists(n) ==
    IF n = 0 THEN { <<>> }
    ELSE KindLists(n - 1) \cup
         { Append(l, JStr(k)) : l \in { x \in KindLists(n - 1) : Len(x) = n - 1 },
                                k \in KindNames }

ScalarSchemas ==
    { JDict(Opt("type", t) \o Opt("enum", e) \o Opt("pattern", p)
            \o Opt("minimum", m)) :
        t \in { <<>>, <<JStr("integer")>>, <<JStr("number")>>,
                <<JStr("string")>>, <<JStr("boolean")>>,
                <<JList(<<JStr("boolean"), JStr("integer")>>)>>,
                <<JList(<<>>)>> },
        e \in { <<>>, <<JList(<<JInt(1), JStr("a")>>)>>,
                <<JList(<<JBool(TRUE), JNull>>)>>, <<JInt(5)>> },
        p \in { <<>>, <<JStr("^[a-z]+$")>> },
        m \in { <<>>, <<JInt(1)>>, <<JStr("x")>> } }

PropsA == JDict(<<KV("a", JDict(<<KV("type", JStr("integer"))>>))>>)
PropsBA ==
    JDict(<<KV("b", JDict(<<KV("type", JStr("string")),
                            KV("enum", JList(<<JStr("a")>>))>>)),
            KV("a", JDict(<<KV("minimum", JInt(1))>>))>>)

ObjectSchemas ==
    { JDict(Opt("type", t) \o Opt("required", r) \o Opt("properties", p)
            \o Opt("additionalProperties", a)) :
        t \in { <<>>, <<JStr("object")>>, <<JStr("integer")>>,
                <<JList(<<JStr("object"), JStr("null")>>)>>,
                <<JList(<<>>)>> },
        r \in { <<>>, <<JList(<<JStr("a")>>)>>,
                <<JList(<<JStr("b"), JStr("a")>>)>> },
        p \in { <<>>, <<PropsA>>, <<PropsBA>> },
        a \in { <<>>, <<JBool(FALSE)>>, <<JBool(TRUE)>>, <<JInt(0)>> } }

ArraySchemas ==
    { JDict(Opt("type", t) \o Opt("minItems", n) \o Opt("items", i)) :
        t \in { <<>>, <<JStr("array")>>, <<JStr("object")>>,
                <<JList(<<JStr("array"), JStr("null")>>)>> },
        n \in { <<>>, <<JInt(1)>>, <<JInt(2)>> },
        i \in { <<>>, <<JDict(<<KV("type", JStr("integer"))>>)>>,
                <<JDict(<<KV("required", JList(<<JStr("a")>>))>>)>> } }

(* Schemas with nested object and array schemas. *)
InnerObject ==
    JDict(<<KV("type", JStr("object")),
            KV("required", JList(<<JStr("x"), JStr("y")>>)),
            KV("properties",
               JDict(<<KV("x", JDict(<<KV("type", JStr("integer"))>>)),
                       KV("y", JDict(<<KV("type", JStr("string"))>>))>>)),
            KV("additionalProperties", JBool(FALSE))>>)
InnerArray ==
    JDict(<<KV("type", JStr("array")),
            KV("minItems", JInt(2)),
            KV("items", JDict(<<KV("type", JStr("integer")),
                                KV("minimum", JInt(1))>>))>>)

NestedSchemas ==
    { InnerObject, InnerArray,
      JDict(<<KV("type", JStr("array")), KV("minItems", JInt(4)),
              KV("items", InnerObject)>>),
      JDict(<<KV("enum", JList(<<JInt(1), JStr("a")>>)),
              KV("minItems", JInt(4)),
              KV("items", JDict(<<KV("type", JStr("integer")),
                                  KV("minimum", JInt(1))>>))>>) } \cup
    { JDict(Opt("type", t) \o <<KV("required", r)>>
            \o <<KV("properties", p)>>
            \o <<KV("additionalProperties", JBool(FALSE))>>) :
        t \in { <<>>, <<JStr("object")>> },
        r \in { JList(<<JStr("z"), JStr("a")>>),
                JList(<<JStr("a"), JStr("w"), JStr("z")>>) },
        p \in { JDict(<<KV("b", InnerArray), KV("a", InnerObject)>>),
                JDict(<<KV("a", InnerObject), KV("b", InnerArray)>>) } }

Schemas == ScalarSchemas \cup ObjectSchemas \cup ArraySchemas \cup NestedSchemas

(* Nodes: an optional id and an optional safety member. *)
SafetyChoices ==
    { <<>>,
      <<JDict(<<>>)>>,
      <<JStr("static")>>,
      <<JNull>>,
      <<JList(<<JBool(TRUE)>>)>> } \cup
    { <<JDict(Opt("motionOptIn", m) \o Opt("minSweepSec", s))>> :
        m \in { <<>>, <<JBool(FALSE)>>, <<JBool(TRUE)>>, <<JInt(1)>> },
        s \in { <<>>, <<JNull>>, <<JInt(5)>>, <<JInt(13)>>, <<JInt(14)>>,
                <<JInt(18)>>, <<JHalves(27)>>, <<JHalves(28)>>,
                <<JStr("fast")>> } }

Nodes ==
    { JDict(Opt("id", i) \o Opt("safety", s)) :
        i \in { <<>>, <<JInt(0)>> }, s \in SafetyChoices }

SweepSchema ==
    JDict(<<KV("type", JList(<<JStr("number"), JStr("null")>>)),
            KV("minimum", JInt(14))>>)
SafetySchema ==
    JDict(<<KV("type", JStr("object")),
            KV("required", JList(<<JStr("motionOptIn"), JStr("minSweepSec")>>)),
            KV("properties",
               JDict(<<KV("motionOptIn", JDict(<<KV("type", JStr("boolean"))>>)),
                       KV("minSweepSec", SweepSchema)>>)),
            KV("additionalProperties", JBool(FALSE))>>)
NodeSchema ==
    JDict(<<KV("type", JStr("object")),
            KV("required", JList(<<JStr("id"), JStr("safety")>>)),
            KV("properties",
               JDict(<<KV("id", JDict(<<KV("type", JStr("integer")),
                                        KV("minimum", JInt(0))>>)),
                       KV("safety", SafetySchema)>>))>>)

NodeSchemas == { JDict(<<>>), NodeSchema }

----------------------------------------------------------------------------
(* Pure-function specification: Init draws a call, one action applies it.  *)

Pending == [state |-> "pending"]
Done(ret) == [state |-> "done", ret |-> ret]

ColorIdle ==
    /\ color_fn = "none" /\ arg_y = 0 /\ arg_co = 0 /\ arg_cg = 0
    /\ color_result = Pending

DedupIdle ==
    /\ file = <<>> /\ original = <<>> /\ history = <<>>

MainIdle ==
    /\ pc = "idle" /\ argc = 0 /\ data_exists = FALSE /\ schema_exists = FALSE
    /\ payload = JNull /\ schema = JNull /\ index = 0 /\ issues = <<>>
    /\ out = <<>> /\ events = <<>> /\ rc = <<>> /\ exc = "" /\ calls = <<>>

FnInit ==
    /\ MainIdle /\ ColorIdle /\ DedupIdle
    /\ result = Pending
    /\ \/ /\ fn = "type_matches"
          /\ arg_value \in Values
          /\ arg_schema \in KindLists(MaxKinds)
          /\ arg_index = 0
       \/ /\ fn = "validate_schema"
          /\ arg_value \in Values
          /\ arg_schema \in Schemas
          /\ arg_index = 0
       \/ /\ fn = "validate_node"
          /\ arg_value \in Nodes
          /\ arg_schema \in NodeSchemas
          /\ arg_index \in 0..MaxIndex

CallTypeMatches ==
    /\ fn = "type_matches" /\ result = Pending
    /\ result' = Done(type_matches(arg_value, arg_schema))
    /\ UNCHANGED <<fn, arg_value, arg_schema, arg_index, mainvars,
                   auxvars>>

CallValidateSchema ==
    /\ fn = "validate_schema" /\ result = Pending
    /\ result' = Done(validate_schema(arg_value, arg_schema, "$"))
    /\ UNCHANGED <<fn, arg_value, arg_schema, arg_index, mainvars,
                   auxvars>>

CallValidateNode ==
    /\ fn = "validate_node" /\ result = Pending
    /\ result' = Done(validate_node(arg_value, arg_schema, arg_index))
    /\ UNCHANGED <<fn, arg_value, arg_schema, arg_index, mainvars,
                   auxvars>>

FnNext == CallTypeMatches \/ CallValidateSchema \/ CallValidateNode

SpecFn == FnInit /\ [][FnNext]_vars

----------------------------------------------------------------------------
(* The program: main and run_validation, one action per step.              *)
(* A printed line is [tag, text]; paths interpolated into the text of the  *)
(* two missing-file lines are left out.                                    *)

Line(tag, text) == [tag |-> tag, text |-> text]

(* Elements a loaded nodes array may hold. *)
NodeElems ==
    { JDict(<<KV("id", JInt(0)),
              KV("safety", JDict(<<KV("motionOptIn", JBool(TRUE)),
                                   KV("minSweepSec", JInt(18))>>))>>),
      JDict(<<KV("id", JInt(0)),
              KV("safety", JDict(<<KV("motionOptIn", JBool(TRUE)),
                                   KV("minSweepSec", JInt(5))>>))>>),
      JDict(<<KV("id", JInt(0)),
              KV("safety", JDict(<<KV("motionOptIn", JBool(FALSE)),
                                   KV("minSweepSec", JNull)>>))>>),
      JDict(<<>>),
      JDict(<<KV("id", JInt(0)), KV("safety", JStr("static"))>>),
      JInt(7),
      JStr("x") }

RECURSIVE NodeLists(_)
NodeLists(n) ==
    IF n = 0 THEN { <<>> }
    ELSE NodeLists(n - 1) \cup
         { Append(l, e) : l \in { x \in NodeLists(n - 1) : Len(x) = n - 1 },
                          e \in NodeElems }

(* Documents load_json(data_path) may return. *)
Payloads ==
    { JDict(<<>>),
      JDict(<<KV("name", JStr("codex-14499"))>>),
      JDict(<<KV("nodes", JStr("abc"))>>),
      JDict(<<KV("nodes", JInt(5))>>),
      JDict(<<KV("nodes", JNull)>>),
      JDict(<<KV("nodes", JDict(<<KV("0", JDict(<<>>))>>))>>),
      JList(<<>>),
      JStr("nodes"),
      JInt(7),
      JNull } \cup
    { JDict(<<KV("name", JStr("codex-14499")), KV("nodes", JList(l))>>) :
        l \in NodeLists(MaxNodes) }

(* nodes = payload.get("nodes") *)
nodes == DictGet(payload, "nodes", JNull)

Init ==
    /\ fn = "none" /\ arg_value = JNull /\ arg_schema = JNull
    /\ arg_index = 0 /\ result = Pending
    /\ pc = "main" /\ argc = 0 /\ data_exists = FALSE /\ schema_exists = FALSE
    /\ payload = JNull /\ schema = JNull /\ index = 0 /\ issues = <<>>
    /\ out = <<>> /\ events = <<>> /\ rc = <<>> /\ exc = "" /\ calls = <<>>
    /\ ColorIdle /\ DedupIdle

(* main, lines 148-156: the invocation fixes argv and the files on disk. *)
Main ==
    /\ pc = "main"
    /\ \E n \in 0..MaxArgs, de \in BOOLEAN, se \in BOOLEAN :
          /\ argc' = n /\ data_exists' = de /\ schema_exists' = se
          /\ IF n > 2
             THEN /\ out' = Append(out, Line("Usage:", "python scripts/validate_codex.py [data_path] [schema_path]"))
                  /\ rc' = <<2>>
                  /\ pc' = "done"
             ELSE /\ pc' = "check_data"
                  /\ UNCHANGED <<out, rc>>
    /\ UNCHANGED <<calls, payload, schema, index, issues, events, exc, fnvars, auxvars>>

(* Variant: the schema path is tested where the data path should be. *)
CheckData_SchemaFirst ==
    /\ pc = "check_data"
    /\ events' = Append(events, "exists:schema")
    /\ IF ~schema_exists
       THEN /\ out' = Append(out, Line("[ERROR]", "Missing schema file"))
            /\ rc' = <<2>>
            /\ pc' = "done"
       ELSE /\ pc' = "check_schema"
            /\ UNCHANGED <<out, rc>>
    /\ UNCHANGED <<calls, argc, data_exists, schema_exists, payload, schema, index,
                   issues, exc, fnvars, auxvars>>

(* run_validation, lines 116-118 *)
CheckData ==
    /\ pc = "check_data"
    /\ events' = Append(events, "exists:data")
    /\ IF ~data_exists
       THEN /\ out' = Append(out, Line("[ERROR]", "Missing data bundle"))
            /\ rc' = <<2>>
            /\ pc' = "done"
       ELSE /\ pc' = "check_schema"
            /\ UNCHANGED <<out, rc>>
    /\ UNCHANGED <<calls, argc, data_exists, schema_exists, payload, schema, index,
                   issues, exc, fnvars, auxvars>>

(* run_validation, lines 119-121 *)
CheckSchema ==
    /\ pc = "check_schema"
    /\ events' = Append(events, "exists:schema")
    /\ IF ~schema_exists
       THEN /\ out' = Append(out, Line("[ERROR]", "Missing schema file"))
            /\ rc' = <<2>>
            /\ pc' = "done"
       ELSE /\ pc' = "load_data"
            /\ UNCHANGED <<out, rc>>
    /\ UNCHANGED <<calls, argc, data_exists, schema_exists, payload, schema, index,
                   issues, exc, fnvars, auxvars>>

(* run_validation, line 123 *)
LoadData ==
    /\ pc = "load_data"
    /\ \E doc \in Payloads : payload' = doc
    /\ events' = Append(events, "load:data")
    /\ pc' = "load_schema"
    /\ UNCHANGED <<calls, argc, data_exists, schema_exists, schema, index, issues,
                   out, rc, exc, fnvars, auxvars>>

(* run_validation, line 124 *)
LoadSchema ==
    /\ pc = "load_schema"
    /\ \E sch \in NodeSchemas : schema' = sch
    /\ events' = Append(events, "load:schema")
    /\ pc' = "get_nodes"
    /\ UNCHANGED <<calls, argc, data_exists, schema_exists, payload, index, issues,
                   out, rc, exc, fnvars, auxvars>>

(* run_validation, lines 126-131 *)
GetNodes ==
    /\ pc = "get_nodes"
    /\ IF payload.t # "dict"
       THEN /\ exc' = "AttributeError"
            /\ pc' = "crashed"
            /\ UNCHANGED <<out, rc, index, issues>>
       ELSE IF nodes.t # "list"
       THEN /\ out' = Append(out, Line("[ERROR]", "Payload missing 'nodes' array"))
            /\ rc' = <<1>>
            /\ pc' = "done"
            /\ UNCHANGED <<exc, index, issues>>
       ELSE /\ pc' = "loop"
            /\ index' = 0
            /\ issues' = <<>>
            /\ UNCHANGED <<out, rc, exc>>
    /\ UNCHANGED <<calls, argc, data_exists, schema_exists, payload, schema, events,
                   fnvars, auxvars>>

(* run_validation, lines 132-136: one iteration of the loop over nodes *)
LoopStep ==
    /\ pc = "loop"
    /\ index < Len(nodes.v)
    /\ LET node == nodes.v[index + 1]
           checked == IF node.t # "dict"
                      THEN Returned(<<Issue(NodePath(index), "expected object")>>)
                      ELSE validate_node(node, schema, index)
       IN /\ calls' = IF node.t # "dict" THEN calls ELSE Append(calls, index)
          /\ IF checked.raised
             THEN /\ exc' = checked.exc
                  /\ pc' = "crashed"
                  /\ UNCHANGED <<index, issues>>
             ELSE /\ issues' = issues \o checked.issues
                  /\ index' = index + 1
                  /\ UNCHANGED <<pc, exc>>
    /\ UNCHANGED <<argc, data_exists, schema_exists, payload, schema, out,
                   events, rc, fnvars, auxvars>>

FailLine(issue) == Line("[FAIL]", issue.path \o ": " \o issue.message)

(* run_validation, lines 138-145 *)
Report ==
    /\ pc = "loop"
    /\ index = Len(nodes.v)
    /\ IF Len(issues) > 0
       THEN /\ out' = out \o [i \in 1..Len(issues) |-> FailLine(issues[i])]
                      \o <<Line("[ERROR]",
                                "Validation failed for " \o ToString(Len(issues))
                                \o " issues across " \o ToString(Len(nodes.v))
                                \o " nodes.")>>
            /\ rc' = <<1>>
       ELSE /\ out' = Append(out, Line("[OK]", ToString(Len(nodes.v))
                         \o " nodes validated against schema and safety rules."))
            /\ rc' = <<0>>
    /\ pc' = "done"
    /\ UNCHANGED <<calls, argc, data_exists, schema_exists, payload, schema, index,
                   issues, events, exc, fnvars, auxvars>>

Next ==
    \/ Main \/ CheckData \/ CheckSchema \/ LoadData \/ LoadSchema
    \/ GetNodes \/ LoopStep \/ Report

Spec == Init /\ [][Next]_vars

----------------------------------------------------------------------------
(* Vocabulary of the properties.                                           *)

Called(name) == fn = name /\ result.state = "done"

CountIssue(found, issue) ==
    Cardinality({ i \in 1..Len(found) : found[i] = issue })

(* The JSON type names a value satisfies, by its runtime type. *)
SatisfiedKinds(value) ==
    CASE value.t = "bool" -> { "boolean" }
      [] value.t = "int" -> { "integer", "number" }
      [] value.t = "float" -> { "number" }
      [] value.t = "NoneType" -> { "null" }
      [] value.t = "str" -> { "string" }
      [] value.t = "list" -> { "array" }
      [] value.t = "dict" -> { "object" }

(* The type names a schema declares: a single name or a set of names. *)
DeclaresType(sch) ==
    HasKey(sch, "type") /\ Item(sch, "type").t \in {"str", "list"}
DeclaredKinds(sch) ==
    LET decl == Item(sch, "type") IN
    IF decl.t = "str" THEN { decl.v }
    ELSE { decl.v[i].v : i \in 1..Len(decl.v) }

TypeCheckPassed(value, sch) ==
    ~DeclaresType(sch) \/ DeclaredKinds(sch) \cap SatisfiedKinds(value) # {}

(* Effective type object: declared "object", declared as a set that *)
(* includes "object", or not declared at all.                       *)
EffectiveObject(sch) ==
    ~HasKey(sch, "type") \/ (DeclaresType(sch) /\ "object" \in DeclaredKinds(sch))

NodesIsArray == payload.t = "dict" /\ nodes.t = "list"
Ended == pc \in {"done", "crashed"}
OutTags(tag) == { i \in 1..Len(out) : out[i].tag = tag }
Loads == { i \in 1..Len(events) : events[i] \in {"load:data", "load:schema"} }

----------------------------------------------------------------------------
\* C1: validate_node returns a list of issues and never raises, whatever
\* the content of the node (safety not an object, minSweepSec non-numeric).
C1_NeverRaises ==
    Called("validate_node") => ~result.ret.raised

\* C2: with safety.motionOptIn true, an absent, null or below-14 minSweepSec
\* yields the generic schema issues followed by exactly one dedicated issue
\* at node[i].safety.minSweepSec; a minSweepSec of 14 or more, or a
\* motionOptIn that is false or absent, yields the generic issues only.
C2_SafetyFloor ==
    (Called("validate_node")
       /\ DictGet(arg_value, "safety", JDict(<<>>)).t = "dict") =>
    LET safety == DictGet(arg_value, "safety", JDict(<<>>))
        hasOpt == HasKey(safety, "motionOptIn")
        optIn == hasOpt /\ Item(safety, "motionOptIn").t = "bool"
                        /\ Item(safety, "motionOptIn").v = 1
        optOut == ~hasOpt \/ (Item(safety, "motionOptIn").t = "bool"
                              /\ Item(safety, "motionOptIn").v = 0)
        hasSweep == HasKey(safety, "minSweepSec")
        missing == ~hasSweep \/ Item(safety, "minSweepSec").t = "NoneType"
        number == hasSweep /\ Item(safety, "minSweepSec").t \in {"int", "float"}
        low == number /\ Halves(Item(safety, "minSweepSec")) < 28
        high == number /\ Halves(Item(safety, "minSweepSec")) >= 28
        generic == validate_schema(arg_value, arg_schema,
                                   "node[" \o ToString(arg_index) \o "]").issues
        dedicated == [path |-> "node[" \o ToString(arg_index)
                                \o "].safety.minSweepSec",
                      message |-> "must be >= 14 seconds when motionOptIn is true"]
        got == result.ret
    IN /\ \A i \in 1..Len(generic) : generic[i].message # dedicated.message
       /\ (optIn /\ (missing \/ low)) =>
             ~got.raised /\ got.issues = Append(generic, dedicated)
       /\ (optIn /\ high) => ~got.raised /\ got.issues = generic
       /\ optOut => ~got.raised /\ got.issues = generic

\* C2 witness: motionOptIn true, minSweepSec 5, the generic pass already
\* reported issues, and the dedicated issue comes last.
C2_Witness ==
    /\ Called("validate_node")
    /\ arg_schema = NodeSchema
    /\ arg_index = 1
    /\ DictGet(arg_value, "safety", JNull).t = "dict"
    /\ DictGet(Item(arg_value, "safety"), "motionOptIn", JNull).t = "bool"
    /\ DictGet(Item(arg_value, "safety"), "motionOptIn", JNull).v = 1
    /\ DictGet(Item(arg_value, "safety"), "minSweepSec", JNull).t = "int"
    /\ DictGet(Item(arg_value, "safety"), "minSweepSec", JNull).v = 5
    /\ Len(result.ret.issues) >= 2
    /\ result.ret.issues[Len(result.ret.issues)].path
         = "node[1].safety.minSweepSec"

\* C3: every invocation of main ends with exactly one status of 0, 1, 2:
\* 2 for more than two arguments or a missing file; 1 when both files exist
\* and nodes is not an array or some issue accumulated; 0 exactly when both
\* files exist, nodes is an array and no issue accumulated.
C3_StatusCodes ==
    Ended =>
    LET usage == argc > 2 \/ ~data_exists \/ ~schema_exists IN
    /\ Len(rc) = 1
    /\ rc[1] \in {0, 1, 2}
    /\ rc[1] = 2 <=> usage
    /\ rc[1] = 1 <=> (~usage /\ (~NodesIsArray \/ Len(issues) > 0))
    /\ rc[1] = 0 <=> (~usage /\ NodesIsArray /\ Len(issues) = 0)

\* C4: for every loaded document whose nodes is missing or not an array
\* (the document not being an object included), run_validation returns 1,
\* prints an [ERROR] line and no [FAIL] line, and validates no node.
C4_FailFast ==
    (Ended /\ Len(events) = 4 /\ ~NodesIsArray) =>
    /\ rc = <<1>>
    /\ OutTags("[ERROR]") # {}
    /\ OutTags("[FAIL]") = {}
    /\ index = 0
    /\ issues = <<>>

\* C5: the data path's existence is checked before the schema path's and
\* both before any load; a missing data file returns 2 with Missing data
\* bundle (even when the schema is missing too), a missing schema file
\* alone returns 2 with Missing schema file, and in both cases nothing is
\* loaded and no [FAIL] or [OK] line is printed.
C5_ExistenceOrder ==
    LET order == <<"exists:data", "exists:schema", "load:data", "load:schema">>
        entered == pc # "main" /\ argc <= 2
    IN /\ Len(events) <= 4
       /\ events = SubSeq(order, 1, Len(events))
       /\ (entered /\ (~data_exists \/ ~schema_exists)) =>
             /\ Loads = {}
             /\ OutTags("[FAIL]") = {} /\ OutTags("[OK]") = {}
       /\ (entered /\ pc = "done" /\ ~data_exists) =>
             /\ rc = <<2>>
             /\ out = <<[tag |-> "[ERROR]", text |-> "Missing data bundle"]>>
       /\ (entered /\ pc = "done" /\ data_exists /\ ~schema_exists) =>
             /\ rc = <<2>>
             /\ out = <<[tag |-> "[ERROR]", text |-> "Missing schema file"]>>

\* C5 witness: both files are missing and run_validation has returned.
C5_Witness ==
    /\ pc = "done" /\ argc <= 2 /\ ~data_exists /\ ~schema_exists
    /\ rc = <<2>> /\ Len(out) = 1

\* C6: when the schema declares a type, a single name or a set of names,
\* none of which the value's runtime type matches, validate_schema returns
\* exactly one issue, at path, and nothing else.
C6_TypeMismatchStops ==
    (Called("validate_schema") /\ DeclaresType(arg_schema)
       /\ DeclaredKinds(arg_schema) \cap SatisfiedKinds(arg_value) = {}) =>
    /\ ~result.ret.raised
    /\ Len(result.ret.issues) = 1
    /\ result.ret.issues[1].path = "$"

\* C7: type_matches is true exactly when some listed name is satisfied:
\* a boolean satisfies only boolean, an integer integer and number, another
\* number only number, null only null, strings, arrays and objects only
\* string, array and object; an empty or unknown-only list matches nothing.
C7_TypeMatches ==
    Called("type_matches") =>
    (result.ret <=>
       \E i \in 1..Len(arg_schema) : arg_schema[i].v \in SatisfiedKinds(arg_value))

\* C7 witness: a boolean offered as integer or number is refused.
C7_Witness ==
    /\ Called("type_matches")
    /\ arg_value.t = "bool"
    /\ arg_schema = <<[t |-> "str", v |-> "integer"], [t |-> "str", v |-> "number"]>>
    /\ result.ret = FALSE

\* C8: for an object value and a schema of effective type object (declared
\* "object", declared as a set including "object", or undeclared), each
\* absent name of required gets exactly one missing required property
\* issue at path.name, and each present name none.
C8_RequiredReported ==
    (Called("validate_schema") /\ arg_value.t = "dict"
       /\ EffectiveObject(arg_schema) /\ HasKey(arg_schema, "required")
       /\ ~result.ret.raised) =>
    \A i \in 1..Len(Item(arg_schema, "required").v) :
          LET name == Item(arg_schema, "required").v[i].v IN
          CountIssue(result.ret.issues,
                     [path |-> "$." \o name, message |-> "missing required property"])
            = IF HasKey(arg_value, name) THEN 0 ELSE 1

\* C9: for an object value and a schema of effective type object, with
\* additionalProperties exactly false each key outside properties gets one
\* issue at path.key and each key inside none; with additionalProperties
\* absent or anything else no such issue is emitted.
C9_AdditionalProperties ==
    (Called("validate_schema") /\ arg_value.t = "dict"
       /\ EffectiveObject(arg_schema) /\ ~result.ret.raised) =>
    LET flag == DictGet(arg_schema, "additionalProperties", JNull)
        forbidden == HasKey(arg_schema, "additionalProperties")
                     /\ flag.t = "bool" /\ flag.v = 0
        listed(key) == HasKey(arg_schema, "properties")
                       /\ HasKey(Item(arg_schema, "properties"), key)
    IN \A i \in 1..Len(arg_value.v) :
             LET key == arg_value.v[i].k IN
             CountIssue(result.ret.issues,
                        [path |-> "$." \o key,
                         message |-> "additional properties are not allowed"])
               = IF forbidden /\ ~listed(key) THEN 1 ELSE 0

(* Equality of JSON values that keeps booleans apart from numbers. *)
ExactEq(a, b) ==
    IF a.t \in {"int", "float"} /\ b.t \in {"int", "float"}
    THEN Halves(a) = Halves(b)
    ELSE a.t = b.t /\ a.v = b.v

\* C10: with enum declared and the type check passed, an enum issue at
\* path is emitted exactly when the value is no member of the enum under
\* exact equality, for which true is not 1 and false is not 0.
C10_EnumExact ==
    (Called("validate_schema") /\ HasKey(arg_schema, "enum")
       /\ Item(arg_schema, "enum").t = "list"
       /\ TypeCheckPassed(arg_value, arg_schema)
       /\ ~result.ret.raised) =>
    LET members == Item(arg_schema, "enum").v
        member == \E i \in 1..Len(members) : ExactEq(members[i], arg_value)
    IN CountIssue(result.ret.issues,
                  [path |-> "$", message |-> "expected one of"])
         = IF member THEN 0 ELSE 1

(* The issues of the nested values of an object, property by property in *)
(* the order of the schema's properties, each as one block.              *)
RECURSIVE PropertyBlocks(_, _, _)
PropertyBlocks(value, props, i) ==
    IF i > Len(props.v) THEN <<>>
    ELSE (IF HasKey(value, props.v[i].k)
          THEN validate_schema(Item(value, props.v[i].k), props.v[i].v,
                               "$." \o props.v[i].k).issues
          ELSE <<>>)
         \o PropertyBlocks(value, props, i + 1)

(* The issues of the elements of an array, by ascending index. *)
RECURSIVE ElementBlocks(_, _, _)
ElementBlocks(value, item_schema, i) ==
    IF i > Len(value.v) THEN <<>>
    ELSE validate_schema(value.v[i], item_schema,
                         "$[" \o ToString(i - 1) \o "]").issues
         \o ElementBlocks(value, item_schema, i + 1)

(* The absent names of required, in the order of required. *)
MissingNames(value, sch) ==
    SelectSeq(DictGet(sch, "required", JList(<<>>)).v,
              LAMBDA name : ~HasKey(value, name.v))

(* The object checks or the array checks ran on the value. *)
ObjectChecked(value, sch) ==
    value.t = "dict" /\ ObjectBranch(value, DictGet(sch, "type", JNull))
ArrayChecked(value, sch) ==
    value.t = "list" /\ ArrayBranch(value, DictGet(sch, "type", JNull))

\* C11: the issue sequence keeps encounter order.  For an object the
\* missing-required issues (in the order of required) precede the blocks of
\* the nested properties (in the order of the schema's properties), which
\* precede the additional-property issues; for an array the minItems issue
\* precedes the blocks of the elements, taken by ascending index.  The
\* issues of a nested value form one contiguous block.  Issues of the value
\* itself (enum, pattern, bounds) come before all of these.
C11_EncounterOrder ==
    (Called("validate_schema") /\ ~result.ret.raised) =>
    LET found == result.ret.issues
        n == Len(found)
        missing == MissingNames(arg_value, arg_schema)
        blocks == PropertyBlocks(arg_value,
                                 DictGet(arg_schema, "properties", JDict(<<>>)), 1)
        elements == IF DictGet(arg_schema, "items", JNull).t = "dict"
                    THEN ElementBlocks(arg_value, Item(arg_schema, "items"), 1)
                    ELSE <<>>
    IN /\ ObjectChecked(arg_value, arg_schema) =>
          \E own \in 0..n, extra \in 0..n :
             /\ own + Len(missing) + Len(blocks) + extra = n
             /\ \A i \in 1..own : found[i].path = "$"
             /\ \A i \in 1..Len(missing) :
                   found[own + i] = [path |-> "$." \o missing[i].v,
                                     message |-> "missing required property"]
             /\ SubSeq(found, own + Len(missing) + 1, n - extra) = blocks
             /\ \A i \in (n - extra + 1)..n :
                   found[i].message = "additional properties are not allowed"
       /\ ArrayChecked(arg_value, arg_schema) =>
          \E own \in 0..n, short \in 0..1 :
             /\ own + short + Len(elements) = n
             /\ \A i \in 1..own :
                   found[i].path = "$"
                   /\ found[i].message \in {"expected one of", "expected type"}
             /\ short = 1 =>
                   found[own + 1].path = "$"
                   /\ found[own + 1].message
                        \notin {"expected one of", "expected type"}
             /\ SubSeq(found, own + short + 1, n) = elements

\* C11 witness: an object with a missing required name, two nested blocks
\* of more than one issue each, and an additional-property issue.
C11_Witness ==
    /\ Called("validate_schema")
    /\ ObjectChecked(arg_value, arg_schema)
    /\ Len(MissingNames(arg_value, arg_schema)) >= 1
    /\ HasKey(arg_value, "a") /\ HasKey(arg_value, "b")
    /\ HasKey(arg_schema, "properties")
    /\ HasKey(Item(arg_schema, "properties"), "a")
    /\ HasKey(Item(arg_schema, "properties"), "b")
    /\ Len(validate_schema(Item(arg_value, "a"),
                           Item(Item(arg_schema, "properties"), "a"),
                           "$.a").issues) >= 2
    /\ Len(validate_schema(Item(arg_value, "b"),
                           Item(Item(arg_schema, "properties"), "b"),
                           "$.b").issues) >= 2
    /\ result.ret.issues[Len(result.ret.issues)].message
         = "additional properties are not allowed"

(* What the pass over nodes[1..k] owes: the indices to hand to            *)
(* validate_node and the issues, element by element.                      *)
RECURSIVE ObjectIndices(_, _)
ObjectIndices(elems, k) ==
    IF k = 0 THEN <<>>
    ELSE ObjectIndices(elems, k - 1)
         \o (IF elems[k].t = "dict" THEN <<k - 1>> ELSE <<>>)

RECURSIVE ElementIssues(_, _, _)
ElementIssues(elems, sch, k) ==
    IF k = 0 THEN <<>>
    ELSE ElementIssues(elems, sch, k - 1)
         \o (IF elems[k].t = "dict"
             THEN validate_node(elems[k], sch, k - 1).issues
             ELSE <<[path |-> "node[" \o ToString(k - 1) \o "]",
                     message |-> "expected object"]>>)

\* C12: in the pass over nodes every non-object element contributes exactly
\* one expected object issue at node[index] and is not handed to
\* validate_node; every object element is validated by validate_node
\* exactly once with its own index; the pass continues past a non-object
\* element and the issues come in ascending node index order.
C12_EveryElement ==
    (Ended /\ NodesIsArray) =>
    /\ calls = ObjectIndices(nodes.v, Len(nodes.v))
    /\ issues = ElementIssues(nodes.v, schema, Len(nodes.v))

\* C13: when nodes is an array, the [OK] line (with the node count) is
\* printed only when no issue accumulated; otherwise one [FAIL] line per
\* issue is printed in accumulation order, followed last by one [ERROR]
\* summary with the issue count and the node count; [OK] never shares a
\* run with [FAIL] or [ERROR].
C13_Report ==
    (Ended /\ NodesIsArray) =>
    /\ OutTags("[OK]") # {} =>
          /\ issues = <<>>
          /\ out = <<[tag |-> "[OK]",
                      text |-> ToString(Len(nodes.v))
                               \o " nodes validated against schema and safety rules."]>>
    /\ issues # <<>> =>
          /\ Len(out) = Len(issues) + 1
          /\ \A i \in 1..Len(issues) :
                out[i] = [tag |-> "[FAIL]",
                          text |-> issues[i].path \o ": " \o issues[i].message]
          /\ out[Len(out)] =
                [tag |-> "[ERROR]",
                 text |-> "Validation failed for " \o ToString(Len(issues))
                          \o " issues across " \o ToString(Len(nodes.v))
                          \o " nodes."]

----------------------------------------------------------------------------
(* color_utils.py.  Its numbers are Python floats.  A float is modelled    *)
(* as an integer count of units of 2^-FracBits that holds MantBits         *)
(* significant bits (in CPython: units of 2^-1074 and 53 bits); every      *)
(* arithmetic operation rounds its exact result to the nearest float,      *)
(* ties to the even mantissa, as IEEE 754 does.  Infinities and NaN are    *)
(* not modelled.                                                           *)

FracBits == 12
MantBits == 5
MaxQuarter == 5

One == 2 ^ FracBits

Abs(n) == IF n < 0 THEN -n ELSE n
Max2(a, b) == IF b > a THEN b ELSE a
Min2(a, b) == IF b < a THEN b ELSE a

(* a / b (a >= 0, b > 0) rounded to the nearest integer, ties to even. *)
RoundHalfEven(a, b) ==
    LET q == a \div b
        rem == a % b
    IN IF 2 * rem < b THEN q
       ELSE IF 2 * rem > b THEN q + 1
       ELSE IF q % 2 = 0 THEN q ELSE q + 1

(* The binary exponent at which a / b fits in MantBits bits. *)
RECURSIVE Exponent(_, _, _)
Exponent(a, b, e) ==
    IF a < (2 ^ (MantBits + e)) * b THEN e ELSE Exponent(a, b, e + 1)

(* The float nearest to a / b units (b > 0). *)
Round(a, b) ==
    LET e == Exponent(Abs(a), b, 0)
        m == RoundHalfEven(Abs(a), b * (2 ^ e)) * (2 ^ e)
    IN IF a < 0 THEN -m ELSE m

Representable(n) == Round(n, 1) = n

(* x + y, x - y, x / y on floats.  The callers of fdiv test the divisor    *)
(* first; a zero divisor is Python's ZeroDivisionError, which              *)
(* ycocg_to_hsl reports through its result.                                *)
fadd(x, y) == Round(x + y, 1)
fsub(x, y) == Round(x - y, 1)
fdiv(x, y) ==
    IF y = 0 THEN 0
    ELSE IF y < 0 THEN Round(-(x * One), -y) ELSE Round(x * One, y)

(* x % w for floats (CPython float_rem): fmod is exact and has the sign of *)
(* x; a remainder whose sign differs from w's gets w added, and that       *)
(* addition rounds.                                                        *)
fmod(x, w) == IF x < 0 THEN -((-x) % Abs(w)) ELSE x % Abs(w)
float_rem(x, w) ==
    LET mod == fmod(x, w)
    IN IF mod # 0 /\ ((w < 0) # (mod < 0)) THEN fadd(mod, w) ELSE mod

(* clamp, lines 10-12. *)
clamp_Unbounded(value, low, high) == Max2(low, value)

clamp(value, low, high) == Max2(low, Min2(high, value))

(* ycocg_to_rgb, lines 15-20. *)
ycocg_to_rgb(y, co, cg) ==
    [r |-> clamp(fsub(fadd(y, co), cg), 0, One),
     g |-> clamp(fadd(y, cg), 0, One),
     b |-> clamp(fsub(fsub(y, co), cg), 0, One)]

(* The hue before normalisation, lines 28-36, with the divisor it uses. *)
hue_Truncating(r, g, b, max_c, delta) ==
    IF delta = 0 THEN [h |-> 0, divisors |-> <<>>]
    ELSE IF max_c = r
    THEN [h |-> fmod(fdiv(fsub(g, b), delta), 6 * One), divisors |-> <<delta>>]
    ELSE IF max_c = g
    THEN [h |-> fadd(fdiv(fsub(b, r), delta), 2 * One), divisors |-> <<delta>>]
    ELSE [h |-> fadd(fdiv(fsub(r, g), delta), 4 * One), divisors |-> <<delta>>]

hue(r, g, b, max_c, delta) ==
    IF delta = 0 THEN [h |-> 0, divisors |-> <<>>]
    ELSE IF max_c = r
    THEN [h |-> float_rem(fdiv(fsub(g, b), delta), 6 * One),
          divisors |-> <<delta>>]
    ELSE IF max_c = g
    THEN [h |-> fadd(fdiv(fsub(b, r), delta), 2 * One), divisors |-> <<delta>>]
    ELSE [h |-> fadd(fdiv(fsub(r, g), delta), 4 * One), divisors |-> <<delta>>]

(* l = clamp(y), line 39. *)
lightness_FromRgb(y, max_c, min_c) == fdiv(fadd(max_c, min_c), 2 * One)

lightness(y, max_c, min_c) == clamp(y, 0, One)

(* denom and s, lines 40-41, with the divisor the division uses. *)
saturation_DeltaOnly(delta, l) ==
    LET denom == fsub(One, Abs(fsub(Round(2 * l, 1), One)))
    IN IF delta = 0
       THEN [s |-> 0, divisors |-> <<>>]
       ELSE [s |-> clamp(fdiv(delta, denom), 0, One), divisors |-> <<denom>>]

saturation(delta, l) ==
    LET denom == fsub(One, Abs(fsub(Round(2 * l, 1), One)))
    IN IF delta = 0 \/ denom = 0
       THEN [s |-> 0, divisors |-> <<>>]
       ELSE [s |-> clamp(fdiv(delta, denom), 0, One), divisors |-> <<denom>>]

(* ycocg_to_hsl, lines 23-43. *)
ycocg_to_hsl(y, co, cg) ==
    LET rgb == ycocg_to_rgb(y, co, cg)
        max_c == Max2(Max2(rgb.r, rgb.g), rgb.b)
        min_c == Min2(Min2(rgb.r, rgb.g), rgb.b)
        delta == fsub(max_c, min_c)
        hu == hue(rgb.r, rgb.g, rgb.b, max_c, delta)
        l == lightness(y, max_c, min_c)
        sat == saturation(delta, l)
        divisors == hu.divisors \o sat.divisors
    IN IF \E i \in 1..Len(divisors) : divisors[i] = 0
       THEN [raised |-> TRUE, exc |-> "ZeroDivisionError", h |-> 0, s |-> 0,
             l |-> 0, divisors |-> divisors]
       ELSE [raised |-> FALSE, exc |-> "", h |-> fdiv(hu.h, 6 * One),
             s |-> sat.s, l |-> l, divisors |-> divisors]

----------------------------------------------------------------------------
(* Colour specification: Init draws a call of ycocg_to_rgb or              *)
(* ycocg_to_hsl, one action applies it.                                    *)

(* The largest float below x (x > 0). *)
Pred(x) ==
    CHOOSE n \in 0..(x - 1) :
        /\ Representable(n)
        /\ \A m \in (n + 1)..(x - 1) : ~Representable(m)

(* Arguments: the quarters from -MaxQuarter/4 to MaxQuarter/4, the float   *)
(* just below 0.5 and the smallest floats either side of 0.                *)
Floats ==
    { (k * One) \div 4 : k \in (-MaxQuarter)..MaxQuarter }
        \cup {Pred(One \div 2), 1, -1}

FnIdle ==
    /\ fn = "none" /\ arg_value = JNull /\ arg_schema = JNull
    /\ arg_index = 0 /\ result = Pending

ColorInit ==
    /\ FnIdle /\ MainIdle /\ DedupIdle
    /\ color_fn \in {"ycocg_to_rgb", "ycocg_to_hsl"}
    /\ arg_y \in Floats /\ arg_co \in Floats /\ arg_cg \in Floats
    /\ color_result = Pending

CallYcocgToRgb ==
    /\ color_fn = "ycocg_to_rgb" /\ color_result = Pending
    /\ color_result' = Done(ycocg_to_rgb(arg_y, arg_co, arg_cg))
    /\ UNCHANGED <<color_fn, arg_y, arg_co, arg_cg, fnvars, mainvars,
                   dedupvars>>

CallYcocgToHsl ==
    /\ color_fn = "ycocg_to_hsl" /\ color_result = Pending
    /\ color_result' = Done(ycocg_to_hsl(arg_y, arg_co, arg_cg))
    /\ UNCHANGED <<color_fn, arg_y, arg_co, arg_cg, fnvars, mainvars,
                   dedupvars>>

ColorNext == CallYcocgToRgb \/ CallYcocgToHsl

SpecColor == ColorInit /\ [][ColorNext]_vars

----------------------------------------------------------------------------
(* Vocabulary of the colour claims. *)

ColorCalled(f) == color_fn = f /\ color_result.state = "done"
Hsl == color_result.ret
Rgb == color_result.ret

(* clamp as the claims state it, by cases. *)
Clamped(v) == IF v < 0 THEN 0 ELSE IF v > One THEN One ELSE v

(* The channels ycocg_to_hsl derives from its arguments. *)
Channels == ycocg_to_rgb(arg_y, arg_co, arg_cg)
MaxC == Max2(Max2(Channels.r, Channels.g), Channels.b)
MinC == Min2(Min2(Channels.r, Channels.g), Channels.b)
Delta == fsub(MaxC, MinC)

\* C14: the lightness returned by ycocg_to_hsl is clamp(y): y itself when
\* 0 <= y <= 1, 0 when y < 0, 1 when y > 1; it is the same for every co and
\* cg (every call returns the lightness of the call with co = cg = 0).
C14_Lightness ==
    ColorCalled("ycocg_to_hsl") =>
        /\ ~Hsl.raised
        /\ Hsl.l = Clamped(arg_y)
        /\ (0 <= arg_y /\ arg_y <= One) => Hsl.l = arg_y
        /\ Hsl.l = ycocg_to_hsl(arg_y, 0, 0).l

(* A saturated colour whose lightness differs from the mean of its channels. *)
C14_Witness ==
    /\ ColorCalled("ycocg_to_hsl")
    /\ 0 < arg_y /\ arg_y < One /\ Delta > 0
    /\ 2 * arg_y # MaxC + MinC
    /\ Hsl.l = arg_y

\* C15: every output of ycocg_to_hsl lies in the unit range: 0 <= h < 1,
\* 0 <= s <= 1 and 0 <= l <= 1.
C15_UnitRange ==
    (ColorCalled("ycocg_to_hsl") /\ ~Hsl.raised) =>
        /\ 0 <= Hsl.h /\ Hsl.h < One
        /\ 0 <= Hsl.s /\ Hsl.s <= One
        /\ 0 <= Hsl.l /\ Hsl.l <= One

\* C16: ycocg_to_rgb returns r = clamp(y + co - cg), g = clamp(y + cg),
\* b = clamp(y - co - cg); each channel lies in [0, 1] and equals the
\* linear expression whenever that expression is already in [0, 1].
C16_Rgb ==
    ColorCalled("ycocg_to_rgb") =>
        LET er == fsub(fadd(arg_y, arg_co), arg_cg)
            eg == fadd(arg_y, arg_cg)
            eb == fsub(fsub(arg_y, arg_co), arg_cg)
            InUnit(v) == 0 <= v /\ v <= One
        IN /\ Rgb.r = Clamped(er) /\ Rgb.g = Clamped(eg) /\ Rgb.b = Clamped(eb)
           /\ InUnit(Rgb.r) /\ InUnit(Rgb.g) /\ InUnit(Rgb.b)
           /\ InUnit(er) => Rgb.r = er
           /\ InUnit(eg) => Rgb.g = eg
           /\ InUnit(eb) => Rgb.b = eb

(* One channel cut at 1, one cut at 0, one passed through. *)
C16_Witness ==
    /\ ColorCalled("ycocg_to_rgb")
    /\ fsub(fadd(arg_y, arg_co), arg_cg) > One /\ Rgb.r = One
    /\ fsub(fsub(arg_y, arg_co), arg_cg) < 0 /\ Rgb.b = 0
    /\ 0 < Rgb.g /\ Rgb.g < One /\ Rgb.g = fadd(arg_y, arg_cg)

\* C17: with delta > 0 the hue is (((g-b)/delta) mod 6)/6 whenever r is the
\* maximum (ties included), ((b-r)/delta + 2)/6 whenever r is not the
\* maximum and g is, and ((r-g)/delta + 4)/6 only when b alone is the
\* maximum; with delta = 0 the hue is 0.
C17_HuePrecedence ==
    (ColorCalled("ycocg_to_hsl") /\ ~Hsl.raised) =>
        LET r == Channels.r
            g == Channels.g
            b == Channels.b
            six == 6 * One
        IN /\ Delta = 0 => Hsl.h = 0
           /\ (Delta > 0 /\ r = MaxC) =>
                  Hsl.h = fdiv(float_rem(fdiv(fsub(g, b), Delta), six), six)
           /\ (Delta > 0 /\ r < MaxC /\ g = MaxC) =>
                  Hsl.h = fdiv(fadd(fdiv(fsub(b, r), Delta), 2 * One), six)
           /\ (Delta > 0 /\ r < MaxC /\ g < MaxC) =>
                  Hsl.h = fdiv(fadd(fdiv(fsub(r, g), Delta), 4 * One), six)

(* r ties with b at the maximum and the red branch wraps -1 to 5. *)
C17_Witness ==
    /\ ColorCalled("ycocg_to_hsl") /\ ~Hsl.raised
    /\ Delta > 0 /\ Channels.r = MaxC /\ Channels.b = MaxC
    /\ Channels.g < Channels.b
    /\ Hsl.h = fdiv(5 * One, 6 * One)

(* denom = 1 - |2 * clamp(y) - 1| *)
Denom == fsub(One, Abs(fsub(Round(2 * Clamped(arg_y), 1), One)))

\* C18: the saturation is 0 whenever delta = 0 or denom = 0, and clamp(delta
\* / denom) otherwise; no division by zero is performed; every y <= 0 or
\* y >= 1 gives s = 0; (0,0,0) maps to (0,0,0) and (1,0,0) to (0,0,1).
C18_Saturation ==
    ColorCalled("ycocg_to_hsl") =>
        /\ ~Hsl.raised
        /\ \A i \in 1..Len(Hsl.divisors) : Hsl.divisors[i] # 0
        /\ (Delta = 0 \/ Denom = 0) => Hsl.s = 0
        /\ (Delta # 0 /\ Denom # 0) => Hsl.s = Clamped(fdiv(Delta, Denom))
        /\ Clamped(arg_y) \in {0, One} => Denom = 0
        /\ (arg_y <= 0 \/ arg_y >= One) => Hsl.s = 0
        /\ (arg_y = 0 /\ arg_co = 0 /\ arg_cg = 0) =>
               (Hsl.h = 0 /\ Hsl.s = 0 /\ Hsl.l = 0)
        /\ (arg_y = One /\ arg_co = 0 /\ arg_cg = 0) =>
               (Hsl.h = 0 /\ Hsl.s = 0 /\ Hsl.l = One)

(* White-clamped lightness with distinct channels: only the denom test     *)
(* keeps the division from being performed.                                *)
C18_Witness ==
    /\ ColorCalled("ycocg_to_hsl") /\ ~Hsl.raised
    /\ arg_y >= One /\ Delta > 0 /\ Denom = 0
    /\ Hsl.s = 0 /\ Len(Hsl.divisors) = 1

----------------------------------------------------------------------------
(* scripts/dedup.py.  A file is the sequence of its characters; a line is  *)
(* a sequence of characters; dups holds [no |-> line number, text |->      *)
(* line].                                                                  *)

MaxChars == 5
MaxCalls == 2

Alphabet == {"a", " ", "\n", "\r"}
Whitespace == {" ", "\n", "\r"}

(* path.read_text(encoding="utf-8"), line 23: universal newlines turn      *)
(* "\r\n" and a lone "\r" into "\n".                                       *)
RECURSIVE read_text(_)
read_text(chars) ==
    IF chars = <<>> THEN <<>>
    ELSE IF chars[1] = "\r"
    THEN IF Len(chars) > 1 /\ chars[2] = "\n"
         THEN <<"\n">> \o read_text(SubSeq(chars, 3, Len(chars)))
         ELSE <<"\n">> \o read_text(Tail(chars))
    ELSE <<chars[1]>> \o read_text(Tail(chars))

(* str.splitlines(), line 23: "\n", "\r" and "\r\n" end a line; no empty   *)
(* line follows the last terminator.  cur is the line being read.          *)
RECURSIVE splitlines_from(_, _)
splitlines_from(text, cur) ==
    IF text = <<>> THEN (IF cur = <<>> THEN <<>> ELSE <<cur>>)
    ELSE IF text[1] = "\r" /\ Len(text) > 1 /\ text[2] = "\n"
    THEN <<cur>> \o splitlines_from(SubSeq(text, 3, Len(text)), <<>>)
    ELSE IF text[1] \in {"\n", "\r"}
    THEN <<cur>> \o splitlines_from(Tail(text), <<>>)
    ELSE splitlines_from(Tail(text), Append(cur, text[1]))

splitlines(text) == splitlines_from(text, <<>>)

(* line.strip(), line 28: truthy when a character other than whitespace    *)
(* remains.                                                                *)
strip_truthy(line) == \E i \in 1..Len(line) : line[i] \notin Whitespace

(* line == prev and line.strip(), line 28; prev is <<>> for None and       *)
(* <<line>> afterwards.                                                    *)
is_duplicate_AnyLine(line, prev) == prev = <<line>>

is_duplicate(line, prev) == prev = <<line>> /\ strip_truthy(line)

(* The loop of lines 27-34 from line number no on. *)
RECURSIVE dedup_loop(_, _, _, _, _, _)
dedup_loop(lines, fix, no, new_lines, dups, prev) ==
    IF no > Len(lines) THEN [new_lines |-> new_lines, dups |-> dups]
    ELSE LET line == lines[no]
         IN IF is_duplicate(line, prev)
            THEN dedup_loop(lines, fix, no + 1,
                            IF ~fix THEN Append(new_lines, line) ELSE new_lines,
                            Append(dups, [no |-> no, text |-> line]),
                            <<line>>)
            ELSE dedup_loop(lines, fix, no + 1, Append(new_lines, line), dups,
                            <<line>>)

(* "\n".join(new_lines), line 36. *)
RECURSIVE join(_)
join(ls) ==
    IF ls = <<>> THEN <<>>
    ELSE IF Len(ls) = 1 THEN ls[1]
    ELSE ls[1] \o <<"\n">> \o join(Tail(ls))

(* if fix and dups, line 35. *)
should_write_Always(fix, dups) == fix

should_write(fix, dups) == fix /\ dups # <<>>

(* dedup_file, lines 21-37: what it returns and what the file holds after. *)
dedup_file(chars, fix) ==
    LET lines == splitlines(read_text(chars))
        scan == dedup_loop(lines, fix, 1, <<>>, <<>>, <<>>)
        wrote == should_write(fix, scan.dups)
    IN [ret |-> scan.dups,
        wrote |-> wrote,
        file |-> IF wrote THEN join(scan.new_lines) \o <<"\n">> ELSE chars]

----------------------------------------------------------------------------
(* Dedup specification: Init draws a file, each action is one call of      *)
(* dedup_file on it.                                                       *)

RECURSIVE Texts(_)
Texts(n) ==
    IF n = 0 THEN {<<>>}
    ELSE Texts(n - 1)
             \cup { Append(t, c) : t \in { x \in Texts(n - 1) : Len(x) = n - 1 },
                                   c \in Alphabet }

DedupInit ==
    /\ FnIdle /\ MainIdle /\ ColorIdle
    /\ file \in Texts(MaxChars)
    /\ original = file
    /\ history = <<>>

CallDedupFile ==
    /\ Len(history) < MaxCalls
    /\ \E fix \in BOOLEAN :
          LET call == dedup_file(file, fix)
          IN /\ file' = call.file
             /\ history' = Append(history, [fix |-> fix, before |-> file,
                                            ret |-> call.ret,
                                            wrote |-> call.wrote,
                                            after |-> call.file])
    /\ UNCHANGED <<original, fnvars, mainvars, colorvars>>

DedupNext == CallDedupFile

SpecDedup == DedupInit /\ [][DedupNext]_vars

----------------------------------------------------------------------------
(* Vocabulary of the dedup claims. *)

LinesOf(chars) == splitlines(read_text(chars))

(* The line numbers whose line is non-blank and equal to the line before. *)
DuplicateNumbers(ls) ==
    { n \in 2..Len(ls) : ls[n] = ls[n - 1] /\ strip_truthy(ls[n]) }

(* Ascending enumeration of a set of line numbers below or at n. *)
RECURSIVE Ascending(_, _)
Ascending(S, n) ==
    IF n = 0 THEN <<>>
    ELSE Ascending(S, n - 1) \o (IF n \in S THEN <<n>> ELSE <<>>)

(* The characters of the lines numbered in keep, each ended by a newline. *)
RECURSIVE Terminated(_, _)
Terminated(ls, keep) ==
    IF keep = <<>> THEN <<>>
    ELSE ls[keep[1]] \o <<"\n">> \o Terminated(ls, Tail(keep))

(* [i, j] is a maximal run of identical non-blank lines. *)
MaximalRun(ls, i, j) ==
    /\ i <= j /\ strip_truthy(ls[i])
    /\ \A n \in i..j : ls[n] = ls[i]
    /\ (i > 1 => ls[i - 1] # ls[i])
    /\ (j < Len(ls) => ls[j + 1] # ls[i])

\* C19: dedup_file(path, fix=True) returns, ascending, exactly the pairs
\* (1-based line number, text) of the non-blank lines equal to the line
\* before them and, when there are any, rewrites the file to the original
\* lines without those lines, each remaining line ended by a newline; a run
\* of k identical non-blank lines is reported k-1 times and leaves one line.
C19_FixRemovesDuplicates ==
    \A c \in 1..Len(history) :
        history[c].fix =>
            LET ls == LinesOf(history[c].before)
                dupset == DuplicateNumbers(ls)
                numbers == Ascending(dupset, Len(ls))
                kept == Ascending((1..Len(ls)) \ dupset, Len(ls))
                ret == history[c].ret
            IN /\ Len(ret) = Len(numbers)
               /\ \A k \in 1..Len(ret) :
                      ret[k] = [no |-> numbers[k], text |-> ls[numbers[k]]]
               /\ dupset # {} =>
                      /\ history[c].wrote
                      /\ history[c].after = Terminated(ls, kept)
               /\ \A i \in 1..Len(ls), j \in 1..Len(ls) :
                      MaximalRun(ls, i, j) =>
                          /\ Cardinality({k \in 1..Len(ret) :
                                 ret[k].no \in i..j}) = j - i
                          /\ (dupset # {} =>
                                 Cardinality({k \in 1..Len(kept) :
                                     kept[k] \in i..j}) = 1)

(* A run of three identical lines: two reports, one line left. *)
C19_Witness ==
    /\ Len(history) >= 1 /\ history[1].fix
    /\ LinesOf(history[1].before) = << <<"a">>, <<"a">>, <<"a">> >>
    /\ history[1].ret = << [no |-> 2, text |-> <<"a">>],
                           [no |-> 3, text |-> <<"a">>] >>
    /\ history[1].after = <<"a", "\n">>

\* C20: after a call with fix=True a second call, with or without fix,
\* returns an empty list and leaves the file unchanged; a call with
\* fix=False never writes the file; a call with fix=True on a file without
\* consecutive duplicate non-blank lines does not write it either.
C20_Idempotent ==
    \A c \in 1..Len(history) :
        LET h == history[c]
        IN /\ ~h.fix => (~h.wrote /\ h.after = h.before)
           /\ (h.fix /\ DuplicateNumbers(LinesOf(h.before)) = {}) =>
                  (~h.wrote /\ h.after = h.before)
           /\ (c > 1 /\ history[c - 1].fix) =>
                  (h.ret = <<>> /\ ~h.wrote /\ h.after = h.before)

(* A first call that removed a duplicate, leaving a blank-line run, then   *)
(* a second call with fix that finds nothing and leaves the file alone.    *)
C20_Witness ==
    /\ Len(history) = 2
    /\ history[1].fix /\ history[1].wrote /\ history[1].after # history[1].before
    /\ history[2].fix /\ history[2].ret = <<>> /\ ~history[2].wrote
    /\ file = history[1].after
    /\ \E n \in 2..Len(LinesOf(file)) :
           LinesOf(file)[n] = LinesOf(file)[n - 1]

====
